---- MODULE Spec2Model ----
(***************************************************************************)
(* A model of expflow (src/expflow/expflow.py): the status machine shared  *)
(* by Trial and Experiment, the creation of participant and experiment     *)
(* records on disk, and the iteration protocol of Experiment.              *)
(*                                                                         *)
(* The specifications share the variables:                                 *)
(*   SpecSM      one status machine (a Trial) with its timing fields;      *)
(*   SpecCreate  the records on disk and the construction of entities;     *)
(*   Spec        one experiment, driven by the Experiment-level operations;*)
(*   SpecTrials  one experiment, its status aliases and its trial list;    *)
(*   SpecSave    one experiment saved and loaded as time passes;           *)
(*   SpecIds     construction with valid and invalid identifiers;          *)
(*   SpecLoad    one experiment loaded while participants come and go;     *)
(*   SpecSkip    one experiment whose trials are skipped one by one.       *)
(***************************************************************************)
EXTENDS Integers, Sequences, FiniteSets, TLC

VARIABLES
    clock,              \* what localnow.now() returns
    sm,                 \* a Trial: the fields of _StatusMixin
    using_compression,  \* the module-level flag of the same name
    pdisk,              \* the Participants directory: path -> record or NoFile
    edisk,              \* the Experiments directory: path -> record or NoFile
    exp,                \* the live Experiment object, or NoObj
    ret,                \* the last call: its name, its inputs, its outcome
    yielded,            \* the trials (by id) the advance steps have returned
    hist                \* which calls were made on exp since it was created

vars == <<clock, sm, using_compression, pdisk, edisk, exp, ret, yielded, hist>>

\* ------------------------------------------------------------------ bounds

MaxClock == 3
MaxHist == 5
MaxTrials == 3
MaxOverrun == 2

\* ------------------------------------------------------- nullable values

\* Python's None is the empty set, a value v is {v}.
None == {}

Some(v) == {v}

Val(o) == CHOOSE v \in o : TRUE

\* ----------------------------------------------------- the status table

Statuses == {"pending", "running", "paused", "timed_out", "finished", "skipped"}

statuses_running_open ==
    [s \in Statuses |->
        CASE s = "pending" -> {"running", "skipped"}
          [] s = "running" -> {"finished", "timed_out", "paused", "skipped"}
          [] s = "paused" -> {"running"}
          [] OTHER -> {}]

\* statuses[s]["transitions"]
statuses ==
    [s \in Statuses |->
        CASE s = "pending" -> {"running", "skipped"}
          [] s = "running" -> {"finished", "timed_out", "paused"}
          [] s = "paused" -> {"running"}
          [] s = "timed_out" -> {}
          [] s = "finished" -> {}
          [] s = "skipped" -> {}]

\* The two checks of the status setter: "none", or the exception it raises.
SetterError(old_status, new_status) ==
    IF new_status \notin DOMAIN statuses THEN "ValueError"
    ELSE IF new_status \notin statuses[old_status] THEN "ValueError"
    ELSE "none"

\* ------------------------------------------------- _StatusMixin, in full

FreshStatus ==
    [current_status |-> "pending",
     status_history |-> <<>>,
     datetime_started |-> None,
     datetime_finished |-> None,
     datetimes_paused |-> <<>>,
     datetime_last_paused |-> None,
     duration |-> None]

RECURSIVE SumPauses(_)
SumPauses(ps) ==
    IF ps = <<>> THEN 0
    ELSE (Head(ps)[2] - Head(ps)[1]) + SumPauses(Tail(ps))

get_duration_pauses_ignored(m) ==
    IF m.datetime_finished = None THEN None
    ELSE Some(Val(m.datetime_finished) - Val(m.datetime_started))

\* get_duration, on the fields of m; a pause interval is <<start, end>>.
get_duration(m) ==
    IF m.datetime_finished = None THEN None
    ELSE Some((Val(m.datetime_finished) - Val(m.datetime_started))
              - SumPauses(m.datetimes_paused))

status_setter_records_first(m, new_status, then) ==
    LET old_status == m.current_status
        m1 == [m EXCEPT
                 !.status_history = Append(@,
                     [old_status |-> old_status, new_status |-> new_status,
                      datetime |-> then])]
    IN IF SetterError(old_status, new_status) # "none"
       THEN [m |-> m1, err |-> SetterError(old_status, new_status)]
       ELSE [m |-> [m1 EXCEPT !.current_status = new_status], err |-> "none"]

status_setter_keeps_last_entry(m, new_status, then) ==
    LET old_status == m.current_status
        m1 == [m EXCEPT
                 !.status_history =
                     <<[old_status |-> old_status, new_status |-> new_status,
                        datetime |-> then]>>,
                 !.current_status = new_status]
    IN IF SetterError(old_status, new_status) # "none"
       THEN [m |-> m, err |-> SetterError(old_status, new_status)]
       ELSE [m |-> m1, err |-> "none"]

status_setter_restarts(m, new_status, then) ==
    LET old_status == m.current_status
        m1 == [m EXCEPT
                 !.status_history = Append(@,
                     [old_status |-> old_status, new_status |-> new_status,
                      datetime |-> then]),
                 !.current_status = new_status]
        m2 == IF new_status = "running"
              THEN IF old_status = "paused"
                   THEN [m1 EXCEPT !.datetimes_paused =
                                       Append(@, <<Val(m.datetime_last_paused), then>>),
                                   !.datetime_started = Some(then)]
                   ELSE [m1 EXCEPT !.datetime_started = Some(then)]
              ELSE IF new_status = "finished" \/ new_status = "timed_out"
                   THEN LET f == [m1 EXCEPT !.datetime_finished = Some(then)]
                        IN [f EXCEPT !.duration = get_duration(f)]
                   ELSE IF new_status = "paused"
                        THEN [m1 EXCEPT !.datetime_last_paused = Some(then)]
                        ELSE m1
    IN IF SetterError(old_status, new_status) # "none"
       THEN [m |-> m, err |-> SetterError(old_status, new_status)]
       ELSE [m |-> m2, err |-> "none"]

status_setter_first_pause_kept(m, new_status, then) ==
    LET old_status == m.current_status
        m1 == [m EXCEPT
                 !.status_history = Append(@,
                     [old_status |-> old_status, new_status |-> new_status,
                      datetime |-> then]),
                 !.current_status = new_status]
        m2 == IF new_status = "running"
              THEN IF old_status = "paused"
                   THEN [m1 EXCEPT !.datetimes_paused =
                            Append(@, <<Val(m.datetime_last_paused), then>>)]
                   ELSE [m1 EXCEPT !.datetime_started = Some(then)]
              ELSE IF new_status = "finished" \/ new_status = "timed_out"
                   THEN LET f == [m1 EXCEPT !.datetime_finished = Some(then)]
                        IN [f EXCEPT !.duration = get_duration(f)]
                   ELSE IF new_status = "paused" /\ m.datetime_last_paused = None
                        THEN [m1 EXCEPT !.datetime_last_paused = Some(then)]
                        ELSE m1
    IN IF SetterError(old_status, new_status) # "none"
       THEN [m |-> m, err |-> SetterError(old_status, new_status)]
       ELSE [m |-> m2, err |-> "none"]

\* The status setter on m at time then: the new fields and the outcome.
status_setter(m, new_status, then) ==
    LET old_status == m.current_status
        e == SetterError(old_status, new_status)
        m1 == [m EXCEPT
                 !.status_history = Append(@,
                     [old_status |-> old_status, new_status |-> new_status,
                      datetime |-> then]),
                 !.current_status = new_status]
        m2 == IF new_status = "running"
              THEN IF old_status = "paused"
                   THEN [m1 EXCEPT !.datetimes_paused =
                            Append(@, <<Val(m.datetime_last_paused), then>>)]
                   ELSE IF old_status = "pending"
                        THEN [m1 EXCEPT !.datetime_started = Some(then)]
                        ELSE m1
              ELSE IF new_status = "finished" \/ new_status = "timed_out"
                   THEN LET f == [m1 EXCEPT !.datetime_finished = Some(then)]
                        IN [f EXCEPT !.duration = get_duration(f)]
                   ELSE IF new_status = "paused"
                        THEN [m1 EXCEPT !.datetime_last_paused = Some(then)]
                        ELSE m1
    IN IF e # "none" THEN [m |-> m, err |-> e] ELSE [m |-> m2, err |-> "none"]

\* run, start, resume, unpause, pause, finish, finish_normally, skip, time_out
AliasNames ==
    {"run", "start", "resume", "unpause", "pause", "finish", "finish_normally",
     "skip", "time_out"}

AliasTarget(name) ==
    CASE name \in {"run", "start", "resume", "unpause"} -> "running"
      [] name = "pause" -> "paused"
      [] name \in {"finish", "finish_normally"} -> "finished"
      [] name = "skip" -> "skipped"
      [] name = "time_out" -> "timed_out"

\* What a caller may pass to set_status: the six statuses and a string that is none.
StatusInputs == Statuses \cup {"bogus"}

NoCall == [op |-> "none", err |-> "none"]

\* pure: since exp was created, only next(exp) was called, n times;
\* mark: the call made during iteration (pause, skip, time_out) at cursor k,
\* when at trials had been returned; stage: "called" right after that call,
\* "released" once the object was let go with no call in between, "loaded"
\* once the record was loaded after that and only next(exp) was called since.
NoHist ==
    [pure |-> FALSE, n |-> 0, mark |-> "none", k |-> 0, at |-> 0, stage |-> "none"]

\* ------------------------------------------------------------- identifiers

\* An id is a string, modelled as the sequence of its characters.
Letters ==
    {"a", "b", "c", "d", "e", "f", "g", "h", "i", "j", "k", "l", "m", "n", "o",
     "p", "q", "r", "s", "t", "u", "v", "w", "x", "y", "z",
     "A", "B", "C", "D", "E", "F", "G", "H", "I", "J", "K", "L", "M", "N", "O",
     "P", "Q", "R", "S", "T", "U", "V", "W", "X", "Y", "Z"}

Digits == {"0", "1", "2", "3", "4", "5", "6", "7", "8", "9"}

\* The character class [a-zA-Z0-9_\-]
IdChars == Letters \cup Digits \cup {"_", "-"}

\* re.match(r"^[a-zA-Z0-9_\-]+$", id_): one or more characters of the class up
\* to the end of the string, where $ also matches before one final newline.
MatchesIdPattern(id_) ==
    LET n == Len(id_)
        body == IF n > 0 /\ id_[n] = "\n" THEN n - 1 ELSE n
    IN /\ body >= 1
       /\ \A i \in 1..body : id_[i] \in IdChars

is_valid_id(id_) == Len(id_) >= 3 /\ MatchesIdPattern(id_)

Pid1 == <<"p", "0", "1">>

Eid1 == <<"e", "_", "1">>

ParticipantIds == {Pid1}

ExperimentIds == {Eid1}

\* ------------------------------------------------------------ class names

\* Participant, a subclass of it, and a subclass of that subclass.
ParticipantClasses == {"Participant", "CustomParticipant", "CustomChildParticipant"}

\* Trial, a subclass of it, and a subclass of that subclass.
TrialClasses == {"Trial", "CustomTrial", "CustomChildTrial"}

\* cls.__bases__, by name
Bases(cls) ==
    CASE cls = "CustomParticipant" -> {"Participant"}
      [] cls = "CustomChildParticipant" -> {"CustomParticipant"}
      [] cls = "CustomTrial" -> {"Trial"}
      [] cls = "CustomChildTrial" -> {"CustomTrial"}
      [] OTHER -> {}

BaseNames == {"Participant", "Experiment", "Trial"}

\* _get_base_name: the class itself, or one of its direct bases; else None.
get_base_name(cls) ==
    IF cls \in BaseNames THEN Some(cls)
    ELSE IF Bases(cls) \cap BaseNames # {}
         THEN Some(CHOOSE b \in Bases(cls) \cap BaseNames : TRUE)
         ELSE None

\* ------------------------------------------------------------------ paths

NoFile == [exists |-> FALSE]

\* A path under Participants or Experiments: the stem and how many ".gz"
\* follow ".json".  Only ".json" and ".json.gz" files are ever written.
Path(stem, gz) == [stem |-> stem, gz |-> gz]

PStems == {<<p>> : p \in ParticipantIds}

EStems == {<<p, e>> : p \in ParticipantIds, e \in ExperimentIds}

EmptyPDisk == [k \in PStems \X {0, 1} |-> NoFile]

EmptyEDisk == [k \in EStems \X {0, 1} |-> NoFile]

\* path.exists()
Exists(disk, path) ==
    /\ <<path.stem, path.gz>> \in DOMAIN disk
    /\ disk[<<path.stem, path.gz>>] # NoFile

\* Path(str(path) + ".gz")
PlusGz(path) == [path EXCEPT !.gz = @ + 1]

\* suffix = ".json" + (".gz" if compression else "")
Suffix(compression) == IF compression THEN 1 ELSE 0

\* Participant.get_default_path(participant_id, compression=...)
ParticipantPath(participant_id, compression) ==
    Path(<<participant_id>>, Suffix(compression))

\* Experiment.get_default_path(participant_id, experiment_id, compression)
ExperimentPath(participant_id, experiment_id, compression) ==
    Path(<<participant_id, experiment_id>>, Suffix(compression))

\* _get_default_path of an object: its path, or the ValueError of an object
\* that is neither a participant nor an experiment.
DefaultPathError(base_name) ==
    IF base_name = Some("Participant") \/ base_name = Some("Experiment")
    THEN "none" ELSE "ValueError"

\* The variants (0: .json, 1: .json.gz) of a stem that exist on a disk.
Variants(disk, stem) == {g \in {0, 1} : Exists(disk, Path(stem, g))}

\* The test of _ensure_default_path_doesnt_exist.
PathTaken(disk, path) == Exists(disk, path) \/ Exists(disk, PlusGz(path))

Write(disk, path, record) == [disk EXCEPT ![<<path.stem, path.gz>>] = record]

Unlink_keeps_file(disk, path) == disk

\* path.unlink()
Unlink(disk, path) == [disk EXCEPT ![<<path.stem, path.gz>>] = NoFile]

\* ------------------------------------------------- the Experiment object

NoObj == [live |-> FALSE]

\* n new Trial objects, all pending; id stands for the trial's uuid.
NewTrials(n) == [i \in 1..n |-> [id |-> i - 1, status |-> "pending"]]

\* The fields of a new Experiment before __post_init__ runs.
NewExperiment(participant_id, experiment_id, compression, trials) ==
    [live |-> TRUE,
     class_name |-> "Experiment",
     participant_id |-> participant_id,
     experiment_id |-> experiment_id,
     compression |-> compression,
     current_status |-> "pending",
     trial_index |-> None,
     trials |-> trials,
     datetime_last_saved |-> None,
     no_save_on_gc |-> FALSE]

\* self.path, as _get_default_path computes it
PathOf(e) == ExperimentPath(e.participant_id, e.experiment_id, e.compression)

\* to_json: every dataclass field (no_save_on_gc is not one)
to_json(e) ==
    [exists |-> TRUE,
     class_name |-> e.class_name,
     participant_id |-> e.participant_id,
     experiment_id |-> e.experiment_id,
     compression |-> e.compression,
     current_status |-> e.current_status,
     trial_index |-> e.trial_index,
     trials |-> e.trials,
     datetime_last_saved |-> e.datetime_last_saved]

\* from_json, before __post_init__ runs
from_json(j) ==
    [live |-> TRUE,
     class_name |-> j.class_name,
     participant_id |-> j.participant_id,
     experiment_id |-> j.experiment_id,
     compression |-> j.compression,
     current_status |-> j.current_status,
     trial_index |-> j.trial_index,
     trials |-> j.trials,
     datetime_last_saved |-> j.datetime_last_saved,
     no_save_on_gc |-> FALSE]

Stamp_keeps_old(e) == e

\* self.datetime_last_saved = now(), the first statement of save()
Stamp(e) == [e EXCEPT !.datetime_last_saved = Some(clock)]

\* save(): stamps the object and writes it to its path
save(e, d) == Write(d, PathOf(e), to_json(Stamp(e)))

\* self.trials[i] for a Python index i: the position in trials, or 0 (IndexError)
Index(trials, i) ==
    LET n == Len(trials)
    IN IF 0 <= i /\ i < n THEN i + 1
       ELSE IF -n <= i /\ i < 0 THEN n + i + 1
       ELSE 0

\* _StatusMixin.set_status on the experiment itself (run, finish, ... as well)
ExpSet(e, new_status) ==
    LET err == SetterError(e.current_status, new_status)
    IN IF err # "none" THEN [e |-> e, err |-> err]
       ELSE [e |-> [e EXCEPT !.current_status = new_status], err |-> "none"]

\* self.trials[i].set_status(new_status)
TrialSet(e, i, new_status) ==
    LET k == Index(e.trials, i)
    IN IF k = 0 THEN [e |-> e, err |-> "IndexError"]
       ELSE LET err == SetterError(e.trials[k].status, new_status)
            IN IF err # "none" THEN [e |-> e, err |-> err]
               ELSE [e |-> [e EXCEPT !.trials[k].status = new_status],
                     err |-> "none"]

\* [trial.skip() for trial in self.trials[i:]], one trial after the other
RECURSIVE SkipFrom(_, _)
SkipFrom(e, i) ==
    IF i >= Len(e.trials) THEN [e |-> e, err |-> "none"]
    ELSE LET r == TrialSet(e, i, "skipped")
         IN IF r.err # "none" THEN r ELSE SkipFrom(r.e, i + 1)

\* Experiment.pause
Experiment_pause(e, d) ==
    LET r0 == ExpSet(e, "paused")
        r1 == IF e.trial_index # None
              THEN TrialSet(r0.e, Val(e.trial_index), "paused")
              ELSE r0
    IN IF r0.err # "none" THEN [e |-> e, d |-> d, err |-> r0.err]
       ELSE IF r1.err # "none" THEN [e |-> r1.e, d |-> d, err |-> r1.err]
       ELSE [e |-> Stamp(r1.e), d |-> save(r1.e, d), err |-> "none"]

\* Experiment.skip and Experiment.time_out: the experiment to status, the
\* current trial to trial_status, the remaining trials skipped, then save
Propagate(e, d, status, trial_status) ==
    LET r0 == ExpSet(e, status)
        r1 == IF e.trial_index # None
              THEN TrialSet(r0.e, Val(e.trial_index), trial_status)
              ELSE r0
        r2 == IF e.trial_index # None /\ r1.err = "none"
              THEN SkipFrom(r1.e, Val(e.trial_index) + 1)
              ELSE r1
    IN IF r0.err # "none" THEN [e |-> e, d |-> d, err |-> r0.err]
       ELSE IF r2.err # "none" THEN [e |-> r2.e, d |-> d, err |-> r2.err]
       ELSE [e |-> Stamp(r2.e), d |-> save(r2.e, d), err |-> "none"]

Experiment_skip(e, d) == Propagate(e, d, "skipped", "skipped")

Experiment_time_out_current_only(e, d) ==
    LET r0 == ExpSet(e, "timed_out")
        r1 == IF e.trial_index # None
              THEN TrialSet(r0.e, Val(e.trial_index), "timed_out")
              ELSE r0
    IN IF r0.err # "none" THEN [e |-> e, d |-> d, err |-> r0.err]
       ELSE IF r1.err # "none" THEN [e |-> r1.e, d |-> d, err |-> r1.err]
       ELSE [e |-> Stamp(r1.e), d |-> save(r1.e, d), err |-> "none"]

Experiment_time_out(e, d) == Propagate(e, d, "timed_out", "timed_out")


InitSM ==
    /\ clock = 0
    /\ sm = FreshStatus
    /\ using_compression = FALSE
    /\ pdisk = EmptyPDisk
    /\ edisk = EmptyEDisk
    /\ exp = NoObj
    /\ ret = NoCall
    /\ yielded = <<>>
    /\ hist = NoHist

others == <<using_compression, pdisk, edisk, exp, yielded, hist>>

\* Experiment.__next__: the object and the disk after the call, the exception
\* it ends with ("none" when it returns), and the id of the trial it returns.
RECURSIVE Experiment_next(_, _)

\* The run of a pending or paused experiment, and the step of the cursor.
Next_cursor(e) ==
    LET e1 == IF e.current_status \in {"pending", "paused"}
              THEN ExpSet(e, "running").e ELSE e
    IN [e1 EXCEPT !.trial_index =
           IF e1.trial_index = None THEN Some(0) ELSE Some(Val(@) + 1)]

Next_previous_left_running(e) ==
    LET i == Val(e.trial_index)
        pk == Index(e.trials, i - 1)
    IN IF i > 0 /\ pk = 0 THEN [e |-> e, err |-> "IndexError"]
       ELSE [e |-> e, err |-> "none"]

\* The previous trial: finished if it is running.
Next_previous(e) ==
    LET i == Val(e.trial_index)
        pk == Index(e.trials, i - 1)
    IN IF i > 0 /\ pk = 0 THEN [e |-> e, err |-> "IndexError"]
       ELSE IF i > 0 /\ e.trials[pk].status = "running"
       THEN TrialSet(e, i - 1, "finished")
       ELSE [e |-> e, err |-> "none"]

\* except IndexError: an IndexError of the nested call is caught as well
Caught(r) ==
    [e |-> r.e, d |-> r.d, err |-> IF r.err = "IndexError" THEN "none" ELSE r.err]

Next_try_no_nested_call(e, d) ==
    LET i == Val(e.trial_index)
        ck == Index(e.trials, i)
    IN IF ck = 0 THEN [e |-> e, d |-> d, err |-> "none"]
       ELSE IF e.trials[ck].status \in {"pending", "paused"}
       THEN [e |-> TrialSet(e, i, "running").e, d |-> d, err |-> "none"]
       ELSE [e |-> e, d |-> d, err |-> "none"]

\* The try block: the current trial run, resumed, or passed over by a nested call.
Next_try(e, d) ==
    LET i == Val(e.trial_index)
        ck == Index(e.trials, i)
    IN IF ck = 0 THEN [e |-> e, d |-> d, err |-> "none"]
       ELSE IF e.trials[ck].status \in {"pending", "paused"}
       THEN [e |-> TrialSet(e, i, "running").e, d |-> d, err |-> "none"]
       ELSE IF e.trials[ck].status = "skipped"
       THEN Caught(Experiment_next(e, d))
       ELSE [e |-> e, d |-> d, err |-> "none"]

\* After the try block: save, then the end of the sequence or the current trial.
Next_end(t) ==
    IF t.err # "none" THEN [e |-> t.e, d |-> t.d, err |-> t.err, out |-> None]
    ELSE IF Val(t.e.trial_index) >= Len(t.e.trials)
    THEN IF ExpSet(t.e, "finished").err # "none"
         THEN [e |-> Stamp(t.e), d |-> save(t.e, t.d),
               err |-> ExpSet(t.e, "finished").err, out |-> None]
         ELSE [e |-> [ExpSet(Stamp(t.e), "finished").e EXCEPT !.trial_index = None],
               d |-> save(t.e, t.d), err |-> "StopIteration", out |-> None]
    ELSE [e |-> Stamp(t.e), d |-> save(t.e, t.d), err |-> "none",
          out |-> Some(t.e.trials[Index(t.e.trials, Val(t.e.trial_index))].id)]

Experiment_next(e, d) ==
    IF Next_previous(Next_cursor(e)).err # "none"
    THEN [e |-> Next_cursor(e), d |-> d,
          err |-> Next_previous(Next_cursor(e)).err, out |-> None]
    ELSE Next_end(Next_try(Next_previous(Next_cursor(e)).e, d))

\* ------------------------------------------------- the trial-list operations

\* What a caller may pass as the trial: a new Trial, or an object that is none.
TrialArgs == {"Trial", "other"}

\* A new pending Trial; the trials of an experiment are numbered as they come.
NewTrial(e) == [id |-> Len(e.trials), status |-> "pending"]

AddTrialError_finished_open(e, arg) ==
    IF e.current_status \in {"skipped", "timed_out"} THEN "ValueError"
    ELSE IF arg # "Trial" THEN "ValueError"
    ELSE "none"

\* _ok_to_add_trial, then _is_trial
AddTrialError(e, arg) ==
    IF e.current_status \in {"finished", "skipped", "timed_out"} THEN "ValueError"
    ELSE IF arg # "Trial" THEN "ValueError"
    ELSE "none"

\* list.insert(index, t): the index is clamped to the ends of the list
ListInsert(trials, index, t) ==
    LET n == Len(trials)
        pos == IF index < 0
               THEN (IF n + index < 0 THEN 0 ELSE n + index)
               ELSE (IF index > n THEN n ELSE index)
    IN SubSeq(trials, 1, pos) \o <<t>> \o SubSeq(trials, pos + 1, n)

\* Experiment.append_trial
Experiment_append_trial(e, d, arg) ==
    IF AddTrialError(e, arg) # "none"
    THEN [e |-> e, d |-> d, err |-> AddTrialError(e, arg)]
    ELSE [e |-> Stamp([e EXCEPT !.trials = Append(@, NewTrial(e))]),
          d |-> save([e EXCEPT !.trials = Append(@, NewTrial(e))], d),
          err |-> "none"]

\* Experiment.append_trials: append_trial on each element in turn
RECURSIVE Experiment_append_trials(_, _, _)
Experiment_append_trials(e, d, args) ==
    IF args = <<>> THEN [e |-> e, d |-> d, err |-> "none"]
    ELSE IF Experiment_append_trial(e, d, Head(args)).err # "none"
    THEN Experiment_append_trial(e, d, Head(args))
    ELSE Experiment_append_trials(Experiment_append_trial(e, d, Head(args)).e,
                                  Experiment_append_trial(e, d, Head(args)).d,
                                  Tail(args))

\* Experiment.insert_trial
Experiment_insert_trial(e, d, arg, index) ==
    IF AddTrialError(e, arg) # "none"
    THEN [e |-> e, d |-> d, err |-> AddTrialError(e, arg)]
    ELSE [e |-> Stamp([e EXCEPT !.trials = ListInsert(@, index, NewTrial(e))]),
          d |-> save([e EXCEPT !.trials = ListInsert(@, index, NewTrial(e))], d),
          err |-> "none"]

\* save() of an object whose path may be None: "if self.path is None: return"
SaveAt(d, path, record) == IF path = None THEN d ELSE Write(d, Val(path), record)

\* _SerialisationMixin.delete on an experiment
Experiment_delete(e, d) ==
    [e |-> [e EXCEPT !.no_save_on_gc = TRUE],
     d |-> IF Exists(d, PathOf(e)) THEN Unlink(d, PathOf(e)) ELSE d]

\* _SerialisationMixin.__del__ on an experiment
Serialisation_del(e, d) ==
    IF Exists(d, PathOf(e)) /\ ~e.no_save_on_gc
    THEN [d |-> save(e, d), err |-> "none"]
    ELSE [d |-> d, err |-> "none"]

\* Experiment.__del__: the disk afterwards and the exception it ends with
Experiment_del(e, d) ==
    IF e.current_status = "running"
    THEN LET r == Experiment_pause(e, d)
             c == IF r.e.trial_index = None
                  THEN [e |-> r.e, err |-> "TypeError"]
                  ELSE TrialSet(r.e, Val(r.e.trial_index), "paused")
         IN IF r.err # "none" THEN [d |-> r.d, err |-> r.err]
            ELSE IF c.err # "none" THEN [d |-> r.d, err |-> c.err]
            ELSE Serialisation_del(c.e, r.d)
    ELSE Serialisation_del(e, d)

\* An object whose construction failed is unreachable: it is finalised (fin)
\* or the process ends first.
Dropped(e, d, fin) == IF fin THEN Experiment_del(e, d).d ELSE d

\* _validate: the class the object is built through against its class_name
ValidateError(cls, class_name) ==
    IF cls # class_name THEN "WrongClassError" ELSE "none"

\* Experiment._check_participant_exists (the test)
ParticipantMissing(pd, participant_id) ==
    /\ ~Exists(pd, ParticipantPath(participant_id, FALSE))
    /\ ~Exists(pd, ParticipantPath(participant_id, TRUE))

\* Experiment.__post_init__ on e, built through class cls; fresh: the object
\* has no datetime_last_saved (a new object, not one read from a file).
Experiment_post_init(cls, e, fresh, pd, d) ==
    LET taken == fresh /\ PathTaken(d, PathOf(e))
        d1 == IF fresh THEN save(e, d) ELSE d
        e1 == IF fresh THEN Stamp(e) ELSE e
        r == IF e.current_status = "running"
             THEN Experiment_pause(e1, d1)
             ELSE [e |-> e1, d |-> d1, err |-> "none"]
    IN IF ValidateError(cls, e.class_name) # "none"
       THEN [e |-> e, d |-> d, err |-> ValidateError(cls, e.class_name)]
       ELSE IF DefaultPathError(get_base_name(e.class_name)) # "none"
       THEN [e |-> e, d |-> d, err |-> "ValueError"]
       ELSE IF taken
       THEN [e |-> e, d |-> d, err |-> "ExperimentExistsError"]
       ELSE IF ParticipantMissing(pd, e.participant_id)
       THEN [e |-> e1, d |-> Unlink(d1, PathOf(e)),
             err |-> "ParticipantDoesNotExistError"]
       ELSE IF r.err # "none" THEN r
       ELSE IF ~is_valid_id(e.participant_id) \/ ~is_valid_id(e.experiment_id)
       THEN [e |-> r.e, d |-> r.d, err |-> "ValueError"]
       ELSE r

\* The path load() reads: the uncompressed file, else the compressed one.
LoadPath(d, participant_id, experiment_id) ==
    IF Exists(d, ExperimentPath(participant_id, experiment_id, FALSE))
    THEN Some(ExperimentPath(participant_id, experiment_id, FALSE))
    ELSE IF Exists(d, ExperimentPath(participant_id, experiment_id, TRUE))
    THEN Some(ExperimentPath(participant_id, experiment_id, TRUE))
    ELSE None

\* ------------------------------------------------------------ participants

NewParticipant(cls, participant_id, compression) ==
    [exists |-> TRUE,
     class_name |-> cls,
     base_name |-> get_base_name(cls),
     participant_id |-> participant_id,
     compression |-> compression]

\* Participant.__post_init__ of a new object and, when fin, its __del__:
\* the Participants directory afterwards and the exception.
Participant_post_init(p, pd, fin) ==
    LET path == ParticipantPath(p.participant_id, p.compression)
        saved == Write(pd, path, p)
    IN IF DefaultPathError(get_base_name(p.class_name)) # "none"
       THEN [d |-> pd, err |-> "ValueError"]
       ELSE IF PathTaken(pd, path)
       THEN [d |-> IF fin /\ Exists(pd, path) THEN saved ELSE pd,
             err |-> "ParticipantExistsError"]
       ELSE IF ~is_valid_id(p.participant_id)
       THEN [d |-> saved, err |-> "ValueError"]
       ELSE [d |-> saved, err |-> "none"]

\* The classes a record may be read through: each class of ParticipantClasses
\* as the writing program defines it, and a class named CustomParticipant that
\* the reading program derives from a subclass of Participant.
ReadingClasses ==
    {[name |-> c, base_name |-> get_base_name(c)] : c \in ParticipantClasses}
    \cup {[name |-> "CustomParticipant", base_name |-> None]}

\* _validate, second test: _get_base_name() of the class against base_name
ValidateBaseError(runtime_base, base_name) ==
    IF runtime_base # base_name THEN "WrongClassError" ELSE "none"

\* t.from_json(record) of a participant record p: __post_init__ of an object
\* that has a datetime_last_saved; nothing is written.
Participant_from_json(t, p) ==
    IF ValidateError(t.name, p.class_name) # "none" THEN "WrongClassError"
    ELSE IF ValidateBaseError(t.base_name, p.base_name) # "none" THEN "WrongClassError"
    ELSE IF DefaultPathError(p.base_name) # "none" THEN "ValueError"
    ELSE IF ~is_valid_id(p.participant_id) THEN "ValueError"
    ELSE "none"

\* Trial.__post_init__ of a new cls(): the names the object gets, and the
\* exception of _validate.
Trial_post_init(cls) ==
    [class_name |-> cls,
     base_name |-> get_base_name(cls),
     err |-> IF ValidateError(cls, cls) # "none"
                \/ ValidateBaseError(get_base_name(cls), get_base_name(cls)) # "none"
             THEN "WrongClassError" ELSE "none"]

\* ----------------------------------------- SpecSM: one Trial and the clock

\* Time passes between two calls.
Tick ==
    /\ clock < MaxClock
    /\ clock' = clock + 1
    /\ UNCHANGED <<sm, ret, others>>

\* Trial.set_status(s), for any s a caller may pass.
TrialSetStatus(s) ==
    /\ Len(sm.status_history) < MaxHist
    /\ LET r == status_setter(sm, s, clock)
       IN /\ sm' = r.m
          /\ ret' = [op |-> "set_status", arg |-> s, old |-> sm.current_status,
                     err |-> r.err]
    /\ UNCHANGED <<clock, others>>

\* Trial.run() .. Trial.time_out(): each calls set_status with its status.
TrialAlias(name) ==
    /\ Len(sm.status_history) < MaxHist
    /\ LET r == status_setter(sm, AliasTarget(name), clock)
       IN /\ sm' = r.m
          /\ ret' = [op |-> name, arg |-> AliasTarget(name),
                     old |-> sm.current_status, err |-> r.err]
    /\ UNCHANGED <<clock, others>>

\* A new Trial replaces the one at hand.
TrialNew ==
    /\ sm # FreshStatus
    /\ sm' = FreshStatus
    /\ ret' = [op |-> "Trial", arg |-> "pending", old |-> "pending", err |-> "none"]
    /\ UNCHANGED <<clock, others>>

NextSM ==
    \/ Tick
    \/ \E s \in StatusInputs : TrialSetStatus(s)
    \/ \E name \in AliasNames : TrialAlias(name)
    \/ TrialNew

SpecSM == InitSM /\ [][NextSM]_vars

\* The transition table as the specification states it.
ClaimTable ==
    [s \in Statuses |->
        CASE s = "pending" -> {"running", "skipped"}
          [] s = "running" -> {"finished", "timed_out", "paused"}
          [] s = "paused" -> {"running"}
          [] OTHER -> {}]

\* C1: set_status(t) in status s succeeds if and only if t is in the table's
\* entry of s (so it always fails from finished, timed_out and skipped); a
\* call that succeeds leaves the status t, one that fails leaves it s.
C1_SetStatusFollowsTable ==
    ret.op \in {"set_status"} \cup AliasNames =>
        /\ (ret.err = "none") <=> (ret.arg \in Statuses /\ ret.arg \in ClaimTable[ret.old])
        /\ ret.err = "none" => sm.current_status = ret.arg
        /\ ret.err # "none" => sm.current_status = ret.old
        /\ ret.old \in {"finished", "timed_out", "skipped"} => ret.err # "none"

\* C1: a rejected call from a terminal status, and an accepted one, both happen.
C1_Witness ==
    /\ ret.op = "set_status"
    /\ ret.old = "finished"
    /\ ret.arg = "running"
    /\ ret.err = "ValueError"
    /\ sm.current_status = "finished"
    /\ Len(sm.status_history) = 2

\* ------------------------------------ the calls on records and experiments

still == <<clock, sm>>

\* What ret records of a call on the live experiment: the object before the
\* call, the exception, and the id of the trial returned.
Ret(op, err, pre, out) == [op |-> op, err |-> err, pre |-> pre, out |-> out]

\* When a call is "during iteration": the experiment runs, the cursor is an index.
MidIteration(e) ==
    /\ e.current_status = "running"
    /\ e.trial_index # None
    /\ Index(e.trials, Val(e.trial_index)) # 0

Mark(op) ==
    IF MidIteration(exp)
    THEN [pure |-> FALSE, n |-> 0, mark |-> op, k |-> Val(exp.trial_index),
          at |-> Len(yielded), stage |-> "called"]
    ELSE NoHist

\* expflow.using_compression = b
SetCompression(b) ==
    /\ using_compression # b
    /\ using_compression' = b
    /\ ret' = [op |-> "using_compression", err |-> "none"]
    /\ UNCHANGED <<still, pdisk, edisk, exp, yielded, hist>>

\* cls(participant_id), a new participant that is dropped at once
CreateParticipant(cls, participant_id, fin) ==
    /\ LET p == NewParticipant(cls, participant_id, using_compression)
           r == Participant_post_init(p, pdisk, fin)
       IN /\ pdisk' = r.d
          /\ ret' = [op |-> "Participant", err |-> r.err, cls |-> cls,
                     participant_id |-> participant_id,
                     compression |-> using_compression,
                     had |-> Variants(pdisk, <<participant_id>>)]
    /\ UNCHANGED <<still, using_compression, edisk, exp, yielded, hist>>

\* delete() on the participant object whose file is variant gz
DeleteParticipant(participant_id, gz) ==
    /\ Exists(pdisk, Path(<<participant_id>>, gz))
    /\ pdisk' = Unlink(pdisk, Path(<<participant_id>>, gz))
    /\ ret' = [op |-> "Participant.delete", err |-> "none"]
    /\ UNCHANGED <<still, using_compression, edisk, exp, yielded, hist>>

\* Experiment(participant_id, experiment_id, trials=[n pending trials])
CreateExperiment(participant_id, experiment_id, n, fin) ==
    /\ exp = NoObj
    /\ LET e == NewExperiment(participant_id, experiment_id, using_compression,
                              NewTrials(n))
           r == Experiment_post_init("Experiment", e, TRUE, pdisk, edisk)
       IN /\ exp' = IF r.err = "none" THEN r.e ELSE NoObj
          /\ edisk' = IF r.err = "none" THEN r.d ELSE Dropped(r.e, r.d, fin)
          /\ ret' = [op |-> "Experiment", err |-> r.err,
                     participant_id |-> participant_id,
                     experiment_id |-> experiment_id,
                     compression |-> using_compression,
                     had |-> Variants(edisk, <<participant_id, experiment_id>>),
                     hadP |-> Variants(pdisk, <<participant_id>>)]
          /\ hist' = [NoHist EXCEPT !.pure = (r.err = "none")]
    /\ yielded' = <<>>
    /\ UNCHANGED <<still, using_compression, pdisk>>

\* Experiment.load(participant_id, experiment_id)
Load(participant_id, experiment_id, fin) ==
    /\ exp = NoObj
    /\ LET path == LoadPath(edisk, participant_id, experiment_id)
           j == edisk[<<Val(path).stem, Val(path).gz>>]
           r == Experiment_post_init("Experiment", from_json(j), FALSE, pdisk, edisk)
       IN IF path = None
          THEN /\ ret' = [op |-> "load", err |-> "FileNotFoundError", pre |-> NoObj,
                          out |-> None, before |-> edisk]
               /\ UNCHANGED <<exp, edisk>>
               /\ hist' = NoHist
          ELSE /\ exp' = IF r.err = "none" THEN r.e ELSE NoObj
               /\ edisk' = IF r.err = "none" THEN r.d ELSE Dropped(r.e, r.d, fin)
               /\ ret' = [op |-> "load", err |-> r.err, pre |-> from_json(j),
                          out |-> None, before |-> edisk]
               /\ hist' = IF r.err = "none" /\ hist.stage = "released"
                          THEN [hist EXCEPT !.stage = "loaded"] ELSE NoHist
    /\ UNCHANGED <<still, using_compression, pdisk, yielded>>

\* next(exp)
Advance ==
    /\ exp # NoObj
    /\ exp.trial_index # None =>
           Val(exp.trial_index) < Len(exp.trials) + MaxOverrun
    /\ LET r == Experiment_next(exp, edisk)
       IN /\ exp' = r.e
          /\ edisk' = r.d
          /\ ret' = Ret("next", r.err, exp, r.out)
          /\ yielded' = IF r.out = None THEN yielded ELSE Append(yielded, Val(r.out))
    /\ hist' = IF hist.pure THEN [hist EXCEPT !.n = @ + 1]
               ELSE IF hist.mark = "pause" /\ hist.stage # "loaded" THEN NoHist
               ELSE hist
    /\ UNCHANGED <<still, using_compression, pdisk>>

\* exp.pause()
ExpPause ==
    /\ exp # NoObj
    /\ LET r == Experiment_pause(exp, edisk)
       IN /\ exp' = r.e
          /\ edisk' = r.d
          /\ ret' = Ret("pause", r.err, exp, None)
    /\ hist' = Mark("pause")
    /\ UNCHANGED <<still, using_compression, pdisk, yielded>>

\* exp.skip()
ExpSkip ==
    /\ exp # NoObj
    /\ LET r == Experiment_skip(exp, edisk)
       IN /\ exp' = r.e
          /\ edisk' = r.d
          /\ ret' = Ret("skip", r.err, exp, None)
    /\ hist' = Mark("skip")
    /\ UNCHANGED <<still, using_compression, pdisk, yielded>>

\* exp.time_out()
ExpTimeOut ==
    /\ exp # NoObj
    /\ LET r == Experiment_time_out(exp, edisk)
       IN /\ exp' = r.e
          /\ edisk' = r.d
          /\ ret' = Ret("time_out", r.err, exp, None)
    /\ hist' = Mark("time_out")
    /\ UNCHANGED <<still, using_compression, pdisk, yielded>>

\* exp.set_status(s); exp.run(), start, resume, unpause, finish and
\* finish_normally are this call with their status.
ExpSetStatus(s) ==
    /\ exp # NoObj
    /\ LET r == ExpSet(exp, s)
       IN /\ exp' = r.e
          /\ ret' = [Ret("set_status", r.err, exp, None) EXCEPT !.op = "exp.set_status"]
    /\ hist' = NoHist
    /\ UNCHANGED <<still, using_compression, pdisk, edisk, yielded>>

\* exp.save()
ExpSave ==
    /\ exp # NoObj
    /\ edisk' = save(exp, edisk)
    /\ exp' = Stamp(exp)
    /\ ret' = [op |-> "save", err |-> "none", pre |-> exp, out |-> None,
               before |-> edisk, now |-> clock]
    /\ hist' = NoHist
    /\ UNCHANGED <<still, using_compression, pdisk, yielded>>

\* exp.delete()
ExpDelete ==
    /\ exp # NoObj
    /\ LET r == Experiment_delete(exp, edisk)
       IN /\ exp' = r.e
          /\ edisk' = r.d
    /\ ret' = Ret("delete", "none", exp, None)
    /\ hist' = NoHist
    /\ UNCHANGED <<still, using_compression, pdisk, yielded>>

\* The last reference to exp goes: __del__ runs.
Discard ==
    /\ exp # NoObj
    /\ LET r == Experiment_del(exp, edisk)
       IN /\ edisk' = r.d
          /\ ret' = [op |-> "__del__", err |-> r.err, pre |-> exp, out |-> None,
                     before |-> edisk]
    /\ exp' = NoObj
    /\ hist' = IF hist.mark = "pause" /\ hist.stage = "called"
               THEN [hist EXCEPT !.stage = "released"] ELSE NoHist
    /\ UNCHANGED <<still, using_compression, pdisk, yielded>>

\* The process ends without finalising exp.
Crash ==
    /\ exp # NoObj
    /\ exp' = NoObj
    /\ ret' = Ret("exit", "none", exp, None)
    /\ hist' = IF hist.mark = "pause" /\ hist.stage = "called"
               THEN [hist EXCEPT !.stage = "released"] ELSE NoHist
    /\ UNCHANGED <<still, using_compression, pdisk, edisk, yielded>>

\* The aliases of set_status that Experiment does not override.
ExpAliasNames == {"run", "start", "resume", "unpause", "finish", "finish_normally"}

\* exp.run(), exp.start(), exp.resume(), exp.unpause(), exp.finish(), ...
ExpAlias(name) ==
    /\ exp # NoObj
    /\ LET r == ExpSet(exp, AliasTarget(name))
       IN /\ exp' = r.e
          /\ ret' = Ret(name, r.err, exp, None)
    /\ hist' = NoHist
    /\ UNCHANGED <<still, using_compression, pdisk, edisk, yielded>>

\* The indexes a caller passes to insert_trial: the front, before the last
\* trial, and past the end of any list at hand.
InsertAt == {0, -1, MaxTrials + MaxTrials}

\* The lists a caller may pass to append_trials.
TrialLists == {<<>>, <<"Trial">>, <<"Trial", "Trial">>, <<"Trial", "other">>}

\* exp.append_trial(arg)
ExpAppendTrial(arg) ==
    /\ exp # NoObj
    /\ Len(exp.trials) < MaxTrials
    /\ LET r == Experiment_append_trial(exp, edisk, arg)
       IN /\ exp' = r.e
          /\ edisk' = r.d
          /\ ret' = [op |-> "append_trial", err |-> r.err, pre |-> exp, out |-> None,
                     args |-> <<arg>>, before |-> edisk]
    /\ hist' = NoHist
    /\ UNCHANGED <<still, using_compression, pdisk, yielded>>

\* exp.append_trials(args)
ExpAppendTrials(args) ==
    /\ exp # NoObj
    /\ Len(exp.trials) + Len(args) <= MaxTrials
    /\ LET r == Experiment_append_trials(exp, edisk, args)
       IN /\ exp' = r.e
          /\ edisk' = r.d
          /\ ret' = [op |-> "append_trials", err |-> r.err, pre |-> exp, out |-> None,
                     args |-> args, before |-> edisk]
    /\ hist' = NoHist
    /\ UNCHANGED <<still, using_compression, pdisk, yielded>>

\* exp.insert_trial(arg, index)
ExpInsertTrial(arg, index) ==
    /\ exp # NoObj
    /\ Len(exp.trials) < MaxTrials
    /\ LET r == Experiment_insert_trial(exp, edisk, arg, index)
       IN /\ exp' = r.e
          /\ edisk' = r.d
          /\ ret' = [op |-> "insert_trial", err |-> r.err, pre |-> exp, out |-> None,
                     args |-> <<arg>>, before |-> edisk]
    /\ hist' = NoHist
    /\ UNCHANGED <<still, using_compression, pdisk, yielded>>

\* The path Participant.load reads: the uncompressed file, else the compressed one.
ParticipantLoadPath(pd, participant_id) ==
    IF Exists(pd, ParticipantPath(participant_id, FALSE))
    THEN Some(ParticipantPath(participant_id, FALSE))
    ELSE IF Exists(pd, ParticipantPath(participant_id, TRUE))
    THEN Some(ParticipantPath(participant_id, TRUE))
    ELSE None

\* t.load(participant_id) for a class t; the object is dropped at once
\* (its __del__ would write the same record again).
LoadParticipant(t, participant_id) ==
    /\ ParticipantLoadPath(pdisk, participant_id) # None
    /\ LET path == Val(ParticipantLoadPath(pdisk, participant_id))
           p == pdisk[<<path.stem, path.gz>>]
       IN ret' = [op |-> "Participant.load", err |-> Participant_from_json(t, p),
                  cls |-> t, rec |-> p]
    /\ UNCHANGED <<still, using_compression, pdisk, edisk, exp, yielded, hist>>

\* cls(), a new trial outside any experiment
CreateTrial(cls) ==
    /\ ret' = [op |-> "Trial", err |-> Trial_post_init(cls).err, cls |-> cls,
               class_name |-> Trial_post_init(cls).class_name,
               base_name |-> Trial_post_init(cls).base_name]
    /\ UNCHANGED <<still, using_compression, pdisk, edisk, exp, yielded, hist>>

\* a = Experiment.from_json(exp.to_json()): __post_init__ runs on the copy,
\* which has a datetime_last_saved; the copy is kept in ret.
ExpRoundTrip ==
    /\ exp # NoObj
    /\ LET r == Experiment_post_init("Experiment", from_json(to_json(exp)), FALSE,
                                     pdisk, edisk)
       IN /\ edisk' = r.d
          /\ ret' = [op |-> "round_trip", err |-> r.err, pre |-> exp, out |-> None,
                     copy |-> r.e, before |-> edisk]
    /\ hist' = NoHist
    /\ UNCHANGED <<still, using_compression, pdisk, exp, yielded>>

\* ------------------------------------ SpecCreate: the records on disk

InitCreate ==
    /\ clock = 0
    /\ sm = FreshStatus
    /\ using_compression = FALSE
    /\ pdisk = EmptyPDisk
    /\ edisk = EmptyEDisk
    /\ exp = NoObj
    /\ ret = NoCall
    /\ yielded = <<>>
    /\ hist = NoHist

NextCreate ==
    \/ \E b \in BOOLEAN : SetCompression(b)
    \/ \E cls \in ParticipantClasses, p \in ParticipantIds, fin \in BOOLEAN :
           CreateParticipant(cls, p, fin)
    \/ \E p \in ParticipantIds, gz \in {0, 1} : DeleteParticipant(p, gz)
    \/ \E t \in ReadingClasses, p \in ParticipantIds : LoadParticipant(t, p)
    \/ \E cls \in TrialClasses : CreateTrial(cls)
    \/ ExpRoundTrip
    \/ \E p \in ParticipantIds, x \in ExperimentIds, fin \in BOOLEAN :
           CreateExperiment(p, x, 0, fin)
    \/ \E s \in Statuses : ExpSetStatus(s)
    \/ ExpPause
    \/ ExpSkip
    \/ ExpTimeOut
    \/ ExpSave
    \/ ExpDelete
    \/ Discard
    \/ Crash

SpecCreate == InitCreate /\ [][NextCreate]_vars

\* ------------------------------------ Spec: one experiment, iterated

Init ==
    /\ clock = 0
    /\ sm = FreshStatus
    /\ using_compression \in BOOLEAN
    /\ pdisk = EmptyPDisk
    /\ edisk = EmptyEDisk
    /\ exp = NoObj
    /\ ret = NoCall
    /\ yielded = <<>>
    /\ hist = NoHist

Next ==
    \/ \E fin \in BOOLEAN : CreateParticipant("Participant", Pid1, fin)
    \/ \E n \in 0..MaxTrials, fin \in BOOLEAN : CreateExperiment(Pid1, Eid1, n, fin)
    \/ Advance
    \/ ExpPause
    \/ ExpSkip
    \/ ExpTimeOut
    \/ \E s \in Statuses : ExpSetStatus(s)
    \/ \E fin \in BOOLEAN : Load(Pid1, Eid1, fin)
    \/ Discard
    \/ Crash

Spec == Init /\ [][Next]_vars

\* ------------------- SpecTrials: one experiment, its status and trial list

NextTrials ==
    \/ \E fin \in BOOLEAN : CreateParticipant("Participant", Pid1, fin)
    \/ \E n \in 0..MaxTrials, fin \in BOOLEAN : CreateExperiment(Pid1, Eid1, n, fin)
    \/ Advance
    \/ \E name \in ExpAliasNames : ExpAlias(name)
    \/ ExpPause
    \/ ExpSkip
    \/ ExpTimeOut
    \/ \E arg \in TrialArgs : ExpAppendTrial(arg)
    \/ \E args \in TrialLists : ExpAppendTrials(args)
    \/ \E arg \in TrialArgs, index \in InsertAt : ExpInsertTrial(arg, index)
    \/ Discard

SpecTrials == Init /\ [][NextTrials]_vars

\* ------------------------- SpecSave: saving and loading as time passes

\* Time passes between two calls on records.
TickSave ==
    /\ clock < MaxClock
    /\ clock' = clock + 1
    /\ UNCHANGED <<sm, ret, others>>

\* Participant(participant_id=None): _get_default_path returns None, so the
\* save() of __post_init__ writes nothing; is_valid_id(None) then raises.
CreateParticipantNoId ==
    /\ pdisk' = SaveAt(pdisk, None,
                       NewParticipant("Participant", None, using_compression))
    /\ ret' = [op |-> "Participant(None)", err |-> "TypeError", before |-> pdisk]
    /\ UNCHANGED <<still, using_compression, edisk, exp, yielded, hist>>

NextSave ==
    \/ TickSave
    \/ \E fin \in BOOLEAN : CreateParticipant("Participant", Pid1, fin)
    \/ CreateParticipantNoId
    \/ \E n \in 0..1, fin \in BOOLEAN : CreateExperiment(Pid1, Eid1, n, fin)
    \/ Advance
    \/ ExpPause
    \/ ExpSave
    \/ \E fin \in BOOLEAN : Load(Pid1, Eid1, fin)
    \/ Discard
    \/ Crash

SpecSave == Init /\ [][NextSave]_vars

\* ------------------------- SpecIds: construction with any identifier

\* The ids a caller may pass: a valid one, one that is too short, one with a
\* character outside the class, and a valid one followed by a newline.
PidShort == <<"p", "0">>

PidBang == <<"p", "!", "1">>

PidNewline == <<"p", "0", "1", "\n">>

EidShort == <<"e", "_">>

ParticipantIdInputs == {Pid1, PidShort, PidBang, PidNewline}

ExperimentIdInputs == {Eid1, EidShort}

InitIds ==
    /\ clock = 0
    /\ sm = FreshStatus
    /\ using_compression = FALSE
    /\ pdisk = [k \in {<<p>> : p \in ParticipantIdInputs} \X {0, 1} |-> NoFile]
    /\ edisk = [k \in {<<p, e>> : p \in ParticipantIdInputs,
                                  e \in ExperimentIdInputs} \X {0, 1} |-> NoFile]
    /\ exp = NoObj
    /\ ret = NoCall
    /\ yielded = <<>>
    /\ hist = NoHist

NextIds ==
    \/ \E p \in ParticipantIdInputs, fin \in BOOLEAN :
           CreateParticipant("Participant", p, fin)
    \/ \E p \in ParticipantIdInputs, x \in ExperimentIdInputs, fin \in BOOLEAN :
           CreateExperiment(p, x, 0, fin)
    \/ Discard
    \/ Crash

SpecIds == InitIds /\ [][NextIds]_vars

\* ------------------- SpecLoad: loading while participants come and go

NextLoad ==
    \/ \E fin \in BOOLEAN : CreateParticipant("Participant", Pid1, fin)
    \/ \E gz \in {0, 1} : DeleteParticipant(Pid1, gz)
    \/ \E n \in 0..1, fin \in BOOLEAN : CreateExperiment(Pid1, Eid1, n, fin)
    \/ Advance
    \/ \E fin \in BOOLEAN : Load(Pid1, Eid1, fin)
    \/ Discard
    \/ Crash

SpecLoad == Init /\ [][NextLoad]_vars

\* ------------------- SpecSkip: trials skipped one by one, then iterated

\* exp.trials[i].skip(): a trial has no file, nothing is saved
TrialSkip(i) ==
    /\ exp # NoObj
    /\ i < Len(exp.trials)
    /\ LET r == TrialSet(exp, i, "skipped")
       IN /\ exp' = r.e
          /\ ret' = Ret("trial.skip", r.err, exp, None)
    /\ hist' = NoHist
    /\ UNCHANGED <<still, using_compression, pdisk, edisk, yielded>>

NextSkip ==
    \/ \E fin \in BOOLEAN : CreateParticipant("Participant", Pid1, fin)
    \/ \E n \in 0..MaxTrials, fin \in BOOLEAN : CreateExperiment(Pid1, Eid1, n, fin)
    \/ \E i \in 0..(MaxTrials - 1) : TrialSkip(i)
    \/ Advance
    \/ ExpPause
    \/ Discard

SpecSkip == Init /\ [][NextSkip]_vars

\* ------------------------------------------------------------- the claims

\* The status of the trial at Python index i of e.
StatusAt(e, i) == e.trials[i + 1].status

\* The persisted record of the one experiment of Spec, as load() would find it.
Persisted == edisk[<<Val(LoadPath(edisk, Pid1, Eid1)).stem,
                     Val(LoadPath(edisk, Pid1, Eid1)).gz>>]

\* C2: a new experiment with N pending trials, advanced n times and nothing
\* else: for n <= N the n-th advance returns trial n-1, which is then running
\* while the trials before it are finished and those after it pending; the
\* (N+1)-th advance ends with StopIteration and leaves the experiment finished,
\* all N trials finished and trial_index None.
C2_IterationInOrder ==
    (exp # NoObj /\ hist.pure) =>
        LET N == Len(exp.trials)
            n == hist.n
        IN /\ n = 0 =>
                /\ exp.current_status = "pending"
                /\ exp.trial_index = None
                /\ yielded = <<>>
           /\ (1 <= n /\ n <= N) =>
                /\ ret.op = "next" => (ret.err = "none" /\ ret.out = Some(n - 1))
                /\ yielded = [i \in 1..n |-> i - 1]
                /\ exp.current_status = "running"
                /\ exp.trial_index = Some(n - 1)
                /\ \A i \in 0..(N - 1) :
                       StatusAt(exp, i) = IF i < n - 1 THEN "finished"
                                          ELSE IF i = n - 1 THEN "running"
                                          ELSE "pending"
           /\ n = N + 1 =>
                /\ ret.op = "next" => (ret.err = "StopIteration" /\ ret.out = None)
                /\ yielded = [i \in 1..N |-> i - 1]
                /\ exp.current_status = "finished"
                /\ exp.trial_index = None
                /\ \A i \in 0..(N - 1) : StatusAt(exp, i) = "finished"

\* C2: the advance after the last of MaxTrials trials has been made.
C2_Witness ==
    /\ exp # NoObj
    /\ hist.pure
    /\ Len(exp.trials) = MaxTrials
    /\ hist.n = MaxTrials + 1
    /\ ret.err = "StopIteration"

\* C3: after Experiment.pause() during iteration at cursor k the persisted
\* record has trial_index k and status paused; once that record is loaded,
\* an advance that returns a trial leaves the experiment running, the trials
\* returned are k+1, k+2, ... in order, and none of the trials 0..k is
\* returned again.
C3_PauseThenResume ==
    hist.mark = "pause" =>
        /\ ret.op = "pause" =>
               /\ Persisted.current_status = "paused"
               /\ Persisted.trial_index = Some(hist.k)
        /\ (hist.stage = "loaded" /\ ret.op = "next" /\ ret.err = "none") =>
               exp.current_status = "running"
        /\ hist.stage = "loaded" =>
               \A i \in (hist.at + 1)..Len(yielded) :
                   /\ yielded[i] = hist.k + (i - hist.at)
                   /\ yielded[i] > hist.k

\* C4: a new Experiment for a pair that has a persisted record fails with
\* ExperimentExistsError, so no pair ever has two records.
C4_GoldenRule ==
    /\ (ret.op = "Experiment" /\ ret.had # {}) => ret.err = "ExperimentExistsError"
    /\ \A stem \in EStems : Cardinality(Variants(edisk, stem)) <= 1

\* C5: a new participant of Participant or of any subclass whose
\* participant_id has a persisted record fails with ParticipantExistsError.
C5_ParticipantIdUnique ==
    (ret.op = "Participant" /\ ret.had # {}) => ret.err = "ParticipantExistsError"

\* C6: the construction of a new Participant or Experiment fails with the
\* ExistsError of its kind whenever a record of the same identity exists,
\* compressed or not, whatever the compression of the new object.
C6_BothVariantsChecked ==
    /\ (ret.op = "Participant" /\ ret.cls = "Participant" /\ ret.had # {}) =>
           ret.err = "ParticipantExistsError"
    /\ (ret.op = "Experiment" /\ ret.had # {}) =>
           ret.err = "ExperimentExistsError"

\* C7 as stated: a new Experiment whose participant has no record fails with
\* ParticipantDoesNotExistError and no file of the pair exists afterwards.
C7_Original ==
    (ret.op = "Experiment" /\ ret.hadP = {}) =>
        /\ ret.err = "ParticipantDoesNotExistError"
        /\ Variants(edisk, <<ret.participant_id, ret.experiment_id>>) = {}

\* C7: a new Experiment whose participant has no record, for a pair that has
\* no experiment record either, fails with ParticipantDoesNotExistError and
\* no file of the pair exists afterwards.
C7_MissingParticipant ==
    (ret.op = "Experiment" /\ ret.hadP = {} /\ ret.had = {}) =>
        /\ ret.err = "ParticipantDoesNotExistError"
        /\ Variants(edisk, <<ret.participant_id, ret.experiment_id>>) = {}

\* C7: such a construction is made, while the other variant flag is in use.
C7_Witness ==
    /\ ret.op = "Experiment"
    /\ ret.hadP = {}
    /\ ret.had = {}
    /\ ret.compression = TRUE
    /\ ret.err = "ParticipantDoesNotExistError"

\* C8: Experiment.skip() during iteration at cursor k leaves the experiment
\* skipped and the trials k, k+1, ... skipped, and every later advance fails.
C8_SkipMidIteration ==
    hist.mark = "skip" =>
        /\ exp.current_status = "skipped"
        /\ \A i \in hist.k..(Len(exp.trials) - 1) : StatusAt(exp, i) = "skipped"
        /\ ret.op = "next" => (ret.err \notin {"none", "StopIteration"} /\ ret.out = None)

\* C9: after Experiment.time_out() during iteration the experiment is
\* timed_out and every later advance raises ValueError and returns no trial.
C9_TimedOutAdvanceFails ==
    hist.mark = "time_out" =>
        /\ exp.current_status = "timed_out"
        /\ ret.op = "next" => (ret.err = "ValueError" /\ ret.out = None)

\* C10 as stated: after a successful Experiment.time_out() with a cursor, the
\* current trial and every trial after it are skipped, and that is persisted.
C10_Original ==
    (ret.op = "time_out" /\ ret.err = "none" /\ ret.pre.trial_index # None) =>
        /\ \A i \in Val(ret.pre.trial_index)..(Len(exp.trials) - 1) :
               StatusAt(exp, i) = "skipped"
        /\ Persisted = to_json(exp)

\* C10: after a successful Experiment.time_out() with a cursor, the current
\* trial is timed_out and every trial after it is skipped, and the persisted
\* record holds that state.
C10_TimeOutPropagates ==
    (ret.op = "time_out" /\ ret.err = "none" /\ ret.pre.trial_index # None) =>
        /\ exp.current_status = "timed_out"
        /\ StatusAt(exp, Val(ret.pre.trial_index)) = "timed_out"
        /\ \A i \in (Val(ret.pre.trial_index) + 1)..(Len(exp.trials) - 1) :
               StatusAt(exp, i) = "skipped"
        /\ Persisted = to_json(exp)

\* C10: time_out() succeeds at the first of three trials.
C10_Witness ==
    /\ ret.op = "time_out"
    /\ ret.err = "none"
    /\ ret.pre.trial_index = Some(0)
    /\ Len(exp.trials) = 3
    /\ StatusAt(exp, 2) = "skipped"

\* C11: loading an experiment record whose persisted status is running
\* succeeds and returns an experiment whose status is paused.
C11_LoadRunningPauses ==
    (ret.op = "load" /\ ret.pre # NoObj /\ ret.pre.current_status = "running") =>
        /\ ret.err = "none"
        /\ exp # NoObj
        /\ exp.current_status = "paused"

\* C12: after every advance that returns a trial or signals the end of the
\* sequence, the persisted record has the status, the trial_index and the
\* trial statuses of the experiment in memory.
C12_AdvancePersisted ==
    (ret.op = "next" /\ ret.err \in {"none", "StopIteration"}) =>
        /\ Persisted.current_status = exp.current_status
        /\ Persisted.trial_index = exp.trial_index
        /\ Persisted.trials = exp.trials

\* C13: after a successful run, start, resume, unpause, pause, finish, skip,
\* time_out, append_trial, append_trials or insert_trial on an experiment the
\* persisted record equals the experiment in memory.
C13_OperationsPersist ==
    (/\ ret.op \in ExpAliasNames \cup {"pause", "skip", "time_out", "append_trial",
                                       "append_trials", "insert_trial"}
     /\ ret.err = "none") =>
        Persisted = to_json(exp)

\* The time spent paused according to a status history: from each change to
\* paused until the change that follows it.
RECURSIVE PausedIn(_, _)
PausedIn(h, i) ==
    IF i >= Len(h) THEN 0
    ELSE (IF h[i].new_status = "paused" THEN h[i + 1].datetime - h[i].datetime ELSE 0)
         + PausedIn(h, i + 1)

\* C14: duration is None while the status is pending, running, paused or
\* skipped; once the status is finished or timed_out it is datetime_finished
\* minus datetime_started minus the lengths of all paused intervals, which is
\* the time from the first to the last status change minus the time spent
\* paused, and it is not negative.
C14_Duration ==
    /\ sm.current_status \in {"pending", "running", "paused", "skipped"} =>
           sm.duration = None
    /\ sm.current_status \in {"finished", "timed_out"} =>
           /\ sm.duration # None
           /\ Val(sm.duration) =
                  (Val(sm.datetime_finished) - Val(sm.datetime_started))
                  - SumPauses(sm.datetimes_paused)
           /\ Val(sm.duration) =
                  (sm.status_history[Len(sm.status_history)].datetime
                   - sm.status_history[1].datetime)
                  - PausedIn(sm.status_history, 1)
           /\ Val(sm.duration) >= 0

\* C14: a Trial finished after a pause that took time.
C14_Witness ==
    /\ sm.current_status = "finished"
    /\ Len(sm.datetimes_paused) = 1
    /\ sm.datetimes_paused[1][2] > sm.datetimes_paused[1][1]
    /\ Val(sm.duration) > 0

\* C15: serialising a participant or an experiment and deserialising it
\* through the same type gives an object whose fields equal the original's,
\* and leaves the persisted records as they were.
C15_RoundTrip ==
    /\ ret.op = "round_trip" =>
           /\ ret.err = "none"
           /\ to_json(ret.copy) = to_json(ret.pre)
           /\ edisk = ret.before
    /\ (/\ ret.op = "Participant.load"
        /\ ret.cls.name = ret.rec.class_name
        /\ ret.cls.base_name = ret.rec.base_name) =>
           ret.err = "none"

\* C16: a record read through a class whose name differs from its class_name,
\* or whose base differs from its base_name, fails with WrongClassError; every
\* object that was constructed or loaded has the class_name of its class and
\* a base_name among Participant, Experiment, Trial.
C16_WrongClass ==
    /\ (/\ ret.op = "Participant.load"
        /\ \/ ret.cls.name # ret.rec.class_name
           \/ ret.cls.base_name # ret.rec.base_name) =>
           ret.err = "WrongClassError"
    /\ (ret.op = "Participant.load" /\ ret.err = "none") =>
           /\ ret.rec.class_name = ret.cls.name
           /\ ret.rec.base_name \in {Some(b) : b \in BaseNames}
    /\ (ret.op = "Trial" /\ ret.err = "none") =>
           /\ ret.class_name = ret.cls
           /\ ret.base_name \in {Some(b) : b \in BaseNames}
    /\ \A k \in DOMAIN pdisk :
           pdisk[k] # NoFile => pdisk[k].base_name \in {Some(b) : b \in BaseNames}

\* The trials of e that were there before the call recorded in ret.
OldTrials(e) == SelectSeq(e.trials, LAMBDA t : t.id < Len(ret.pre.trials))

\* C17: append_trial, append_trials of a non-empty list and insert_trial on a
\* finished, skipped or timed_out experiment fail with ValueError and leave
\* the trials and the persisted record as they were; on an experiment of any
\* other status they succeed for Trial arguments, the new trials are added
\* to the ones at hand, and the new sequence is persisted.
C17_AddTrial ==
    (ret.op \in {"append_trial", "append_trials", "insert_trial"} /\ ret.args # <<>>) =>
        /\ ret.pre.current_status \in {"finished", "skipped", "timed_out"} =>
               /\ ret.err = "ValueError"
               /\ exp.trials = ret.pre.trials
               /\ edisk = ret.before
        /\ (/\ ret.pre.current_status \in {"pending", "running", "paused"}
            /\ \A i \in 1..Len(ret.args) : ret.args[i] = "Trial") =>
               /\ ret.err = "none"
               /\ Len(exp.trials) = Len(ret.pre.trials) + Len(ret.args)
               /\ OldTrials(exp) = ret.pre.trials
               /\ ret.op # "insert_trial" =>
                      SubSeq(exp.trials, 1, Len(ret.pre.trials)) = ret.pre.trials
               /\ \A i \in (Len(ret.pre.trials) + 1)..Len(exp.trials) :
                      \E k \in 1..Len(exp.trials) :
                          exp.trials[k] = [id |-> i - 1, status |-> "pending"]
               /\ Persisted.trials = exp.trials

\* C17: a Trial is refused by an experiment that finished its iteration and
\* whose record is on disk.
C17_Witness ==
    /\ ret.op = "append_trial"
    /\ ret.args = <<"Trial">>
    /\ ret.pre.current_status = "finished"
    /\ Len(ret.pre.trials) > 0
    /\ ret.err = "ValueError"
    /\ LoadPath(edisk, Pid1, Eid1) # None

\* C18: once delete() was called on an experiment, discarding the object
\* (__del__) creates or writes no file.
C18_NoWriteAfterDelete ==
    (ret.op = "__del__" /\ ret.pre.no_save_on_gc) => edisk = ret.before

\* C19: __del__ of an experiment never ends with an exception.
C19_DelNeverRaises ==
    ret.op = "__del__" => ret.err = "none"

\* C20: after an experiment was discarded while running, the persisted
\* record shows the experiment paused and, when the cursor is an index, its
\* current trial paused.
C20_DiscardPauses ==
    (ret.op = "__del__" /\ ret.pre.current_status = "running") =>
        /\ LoadPath(edisk, ret.pre.participant_id, ret.pre.experiment_id) # None
        /\ Persisted.current_status = "paused"
        /\ Persisted.trial_index = ret.pre.trial_index
        /\ ret.pre.trial_index # None =>
               /\ Index(Persisted.trials, Val(ret.pre.trial_index)) # 0
               /\ StatusAt(Persisted, Val(ret.pre.trial_index)) = "paused"

\* The status of the trial of e whose id is id.
StatusOf(e, id) ==
    (CHOOSE t \in {e.trials[i] : i \in 1..Len(e.trials)} : t.id = id).status

\* C21: whenever an advance returns a trial, the experiment is running and
\* the trial returned is running.
C21_YieldedRunning ==
    (ret.op = "next" /\ ret.out # None) =>
        /\ exp.current_status = "running"
        /\ StatusOf(exp, Val(ret.out)) = "running"

\* An id the specification calls invalid: shorter than 3 characters, or with
\* a character that is no ASCII letter, digit, underscore or hyphen.
InvalidId(id_) ==
    \/ Len(id_) < 3
    \/ \E i \in 1..Len(id_) : id_[i] \notin IdChars

\* C22: a new Participant with an invalid participant_id, and a new Experiment
\* with an invalid participant_id or experiment_id, fail with ValueError.
C22_InvalidIdRejected ==
    /\ (ret.op = "Participant" /\ InvalidId(ret.participant_id)) =>
           ret.err = "ValueError"
    /\ (/\ ret.op = "Experiment"
        /\ InvalidId(ret.participant_id) \/ InvalidId(ret.experiment_id)) =>
           ret.err = "ValueError"

\* FileNotFoundError and its subclass ParticipantDoesNotExistError
IsFileNotFound(err) == err \in {"FileNotFoundError", "ParticipantDoesNotExistError"}

\* C23: Experiment.load returns the record at the uncompressed path when
\* that file exists, else the one at the compressed path, and raises
\* FileNotFoundError exactly when neither exists; it creates no file and
\* changes no datetime_last_saved, on disk or in the object returned.
C23_Load ==
    ret.op = "load" =>
        LET had == Variants(ret.before, <<Pid1, Eid1>>)
            g == IF 0 \in had THEN 0 ELSE 1
        IN /\ IsFileNotFound(ret.err) <=> had = {}
           /\ had # {} =>
                  /\ ret.err = "none"
                  /\ exp # NoObj
                  /\ exp.participant_id = ret.before[<<<<Pid1, Eid1>>, g>>].participant_id
                  /\ exp.compression = ret.before[<<<<Pid1, Eid1>>, g>>].compression
                  /\ exp.trial_index = ret.before[<<<<Pid1, Eid1>>, g>>].trial_index
                  /\ exp.datetime_last_saved =
                         ret.before[<<<<Pid1, Eid1>>, g>>].datetime_last_saved
           /\ \A k \in DOMAIN edisk :
                  /\ ret.before[k] = NoFile => edisk[k] = NoFile
                  /\ (ret.before[k] # NoFile /\ edisk[k] # NoFile) =>
                         edisk[k].datetime_last_saved = ret.before[k].datetime_last_saved

\* The file at the path of the experiment e.
FileOf(e) == edisk[<<PathOf(e).stem, PathOf(e).gz>>]

C25_DuplicateLeavesRecord ==
    [][(/\ ret'.op \in {"Participant", "Experiment"}
        /\ ret'.err \in {"ParticipantExistsError", "ExperimentExistsError"}) =>
           (pdisk' = pdisk /\ edisk' = edisk)]_vars

\* C26: whenever the experiment is running and the cursor is an index of
\* the trial list the current trial is running, and whenever it is paused
\* and the cursor is an index the current trial is paused.
C26_Lockstep ==
    (/\ exp # NoObj
     /\ exp.trial_index # None
     /\ Index(exp.trials, Val(exp.trial_index)) # 0) =>
        /\ exp.current_status = "running" =>
               StatusAt(exp, Val(exp.trial_index)) = "running"
        /\ exp.current_status = "paused" =>
               StatusAt(exp, Val(exp.trial_index)) = "paused"

\* finished, timed_out, skipped
Terminal == {"finished", "timed_out", "skipped"}

\* C27: while the experiment is finished, timed_out or skipped none of its
\* trials is running, and an advance made in such a state returns no trial
\* and changes no trial's status.
C27_TerminalIsQuiet ==
    /\ (exp # NoObj /\ exp.current_status \in Terminal) =>
           \A i \in 1..Len(exp.trials) : exp.trials[i].status # "running"
    /\ (ret.op = "next" /\ ret.pre.current_status \in Terminal /\ exp # NoObj) =>
           /\ ret.out = None
           /\ exp.trials = ret.pre.trials

\* C28: once an advance has signalled the end of the sequence, no later
\* advance returns a trial (checked on an experiment on which nothing but
\* next() is called: the advances after the first Len(trials) + 1).
C28_NoRestart ==
    (/\ exp # NoObj
     /\ hist.pure
     /\ hist.n > Len(exp.trials) + 1
     /\ ret.op = "next") =>
        ret.out = None

\* C29: no trial is returned by more than one advance, and when the end of
\* the sequence is signalled every trial of the experiment was returned once
\* or is skipped.
C29_SinglePass ==
    /\ \A i, j \in 1..Len(yielded) : i # j => yielded[i] # yielded[j]
    /\ (ret.op = "next" /\ ret.err = "StopIteration") =>
           \A k \in 1..Len(exp.trials) :
               \/ \E i \in 1..Len(yielded) : yielded[i] = exp.trials[k].id
               \/ exp.trials[k].status = "skipped"

\* C30: when an advance signals the end of the sequence and leaves the
\* experiment finished, every trial is finished, timed_out or skipped.
C30_AllTrialsTerminal ==
    (ret.op = "next" /\ ret.err = "StopIteration" /\ exp.current_status = "finished") =>
        \A k \in 1..Len(exp.trials) : exp.trials[k].status \in Terminal

\* C31: Experiment.pause(), skip() and time_out() either succeed and leave
\* the persisted record equal to the experiment, or fail and leave the
\* experiment's status, every trial's status and the records unchanged;
\* pause() succeeds whenever the experiment is running.
C31_AllOrNothing ==
    [][ret'.op \in {"pause", "skip", "time_out"} =>
           /\ ret'.err = "none" => Persisted' = to_json(exp')
           /\ ret'.err # "none" =>
                  /\ exp'.current_status = exp.current_status
                  /\ exp'.trials = exp.trials
                  /\ edisk' = edisk
           /\ (ret'.op = "pause" /\ exp.current_status = "running") =>
                  ret'.err = "none"]_vars

\* C32: a load of an existing experiment record that fails leaves the
\* experiment's file present and unchanged.
C32_FailedLoadKeepsFile ==
    (/\ ret.op = "load"
     /\ ret.err # "none"
     /\ LoadPath(ret.before, Pid1, Eid1) # None) => edisk = ret.before

\* C33: a construction of a Participant or Experiment that raised ValueError
\* for its id(s) leaves no record on disk under the rejected id(s), so the
\* same construction again does not find the path taken.
C33_RejectedIdLeavesNoRecord ==
    /\ (ret.op = "Participant" /\ ret.err = "ValueError") =>
           Variants(pdisk, <<ret.participant_id>>) = {}
    /\ (ret.op = "Experiment" /\ ret.err = "ValueError") =>
           Variants(edisk, <<ret.participant_id, ret.experiment_id>>) = {}

NonTerminal(e) == e.current_status \in {"pending", "running", "paused"}

\* The cursor of e as a number: -1 before the first advance.
CursorOf(e) == IF e.trial_index = None THEN -1 ELSE Val(e.trial_index)

\* The indexes after the cursor of e whose trial is not skipped.
NotSkippedAhead(e) ==
    {j \in 0..(Len(e.trials) - 1) : j > CursorOf(e) /\ StatusAt(e, j) # "skipped"}

Least(S) == CHOOSE j \in S : \A k \in S : j <= k

\* C34: an advance of a non-terminal experiment leaves every skipped trial
\* skipped, never returns a skipped trial, and ends with the cursor on the
\* first trial after the old cursor that was not skipped, which it returns,
\* or with StopIteration when only skipped trials were left.
C34_SkipThrough ==
    (ret.op = "next" /\ NonTerminal(ret.pre)) =>
        /\ \A j \in 0..(Len(exp.trials) - 1) :
               StatusAt(ret.pre, j) = "skipped" => StatusAt(exp, j) = "skipped"
        /\ ret.out # None => StatusAt(exp, Val(ret.out)) # "skipped"
        /\ NotSkippedAhead(ret.pre) # {} =>
               /\ ret.err = "none"
               /\ exp.trial_index = Some(Least(NotSkippedAhead(ret.pre)))
               /\ ret.out = exp.trial_index
        /\ NotSkippedAhead(ret.pre) = {} =>
               /\ ret.err = "StopIteration"
               /\ ret.out = None

\* The cursor is on trial 0, trial 1 was skipped: the advance returns trial 2.
C34_Witness ==
    /\ ret.op = "next"
    /\ ret.err = "none"
    /\ ret.pre.current_status = "running"
    /\ ret.pre.trial_index = Some(0)
    /\ Len(ret.pre.trials) = 3
    /\ StatusAt(ret.pre, 1) = "skipped"
    /\ ret.out = Some(2)
    /\ StatusAt(exp, 2) = "running"

\* C35: a set_status call that is rejected, for an unknown status or for a
\* transition outside the table, leaves current_status, status_history,
\* datetime_started, datetime_finished, datetime_last_paused,
\* datetimes_paused and duration as they were.
C35_RejectedCallChangesNothing ==
    [][(clock' = clock /\ ret'.err # "none") => sm' = sm]_vars

\* C35: an unknown status was rejected on a paused Trial.
C35_Witness ==
    /\ ret.op = "set_status"
    /\ ret.arg = "bogus"
    /\ ret.err = "ValueError"
    /\ ret.old = "paused"
    /\ sm.current_status = "paused"
    /\ sm.datetime_last_paused # None
    /\ Len(sm.status_history) = 2

\* trial_index is None or an index of trials
CursorInRange(e) ==
    e.trial_index = None
    \/ (0 <= Val(e.trial_index) /\ Val(e.trial_index) < Len(e.trials))

\* C36: the experiment in memory after every call, and the record on disk at
\* every moment, have a trial_index that is None or an index of the trials.
C36_CursorInRange ==
    /\ exp # NoObj => CursorInRange(exp)
    /\ LoadPath(edisk, Pid1, Eid1) # None => CursorInRange(Persisted)

\* The positions of the trials of e that are running.
RunningTrials(e) == {k \in 1..Len(e.trials) : e.trials[k].status = "running"}

\* C37: whatever is called on an experiment, whose trials are all new when
\* they are added, at most one of its trials is running.
C37_OneTrialRunning ==
    exp # NoObj => Cardinality(RunningTrials(exp)) <= 1

\* A status history h that ends in status s: it starts from pending, each
\* entry starts where the one before ended, each entry is in the table, and
\* the last entry ends in s; it is empty exactly when s is pending.
HistoryConsistent(h, s) ==
    /\ (h = <<>>) <=> (s = "pending")
    /\ h # <<>> => (h[1].old_status = "pending" /\ h[Len(h)].new_status = s)
    /\ \A i \in 1..Len(h) :
           /\ h[i].new_status \in ClaimTable[h[i].old_status]
           /\ i > 1 => h[i].old_status = h[i - 1].new_status

\* C38: every successful set_status appends one entry with the old status,
\* the new status and the time of the call to status_history and changes no
\* earlier entry; in every reachable state the history starts from pending,
\* is chained, has only legal transitions and ends in current_status, which
\* is pending exactly when the history is empty.
C38_StatusHistory ==
    /\ [](HistoryConsistent(sm.status_history, sm.current_status))
    /\ [][(clock' = clock /\ ret'.err = "none" /\ ret'.op # "Trial") =>
              sm'.status_history =
                  Append(sm.status_history,
                         [old_status |-> sm.current_status,
                          new_status |-> ret'.arg,
                          datetime |-> clock])]_vars

\* C38: a Trial that ran, was paused and runs again.
C38_Witness ==
    /\ sm.current_status = "running"
    /\ Len(sm.status_history) = 3
    /\ sm.status_history[2].new_status = "paused"
    /\ sm.status_history[3].datetime > sm.status_history[1].datetime

\* The entries of a status history that go from paused to running.
Resumptions(h) ==
    {i \in 1..Len(h) : h[i].old_status = "paused" /\ h[i].new_status = "running"}

\* The timing fields of m agree with its status and its history.
TimingConsistent(m) ==
    /\ (m.datetime_started = None) <=> (m.current_status \in {"pending", "skipped"})
    /\ m.datetime_started # None =>
           /\ m.status_history[1].new_status = "running"
           /\ m.datetime_started = Some(m.status_history[1].datetime)
    /\ (m.datetime_finished # None) <=> (m.current_status \in {"finished", "timed_out"})
    /\ m.datetime_finished # None =>
           m.datetime_finished = Some(m.status_history[Len(m.status_history)].datetime)
    /\ Len(m.datetimes_paused) = Cardinality(Resumptions(m.status_history))

\* C39: datetime_started is set on the change from pending to running and
\* never changes afterwards, and is None exactly in pending and skipped;
\* datetime_finished is set on entering finished or timed_out and never
\* changes afterwards; each change from paused to running appends the one
\* pair (datetime_last_paused, now) to datetimes_paused and nothing else
\* changes that list, so it has as many pairs as the history has changes
\* from paused to running.
C39_Timing ==
    /\ [](TimingConsistent(sm))
    /\ [][~(ret'.op = "Trial" /\ clock' = clock) =>
              /\ sm.datetime_started # None =>
                     sm'.datetime_started = sm.datetime_started
              /\ sm.datetime_finished # None =>
                     sm'.datetime_finished = sm.datetime_finished
              /\ sm'.datetimes_paused =
                     IF sm.current_status = "paused" /\ sm'.current_status = "running"
                     THEN Append(sm.datetimes_paused,
                                 <<Val(sm.datetime_last_paused), clock>>)
                     ELSE sm.datetimes_paused]_vars

\* C39: a Trial that was resumed later than it was started, and then timed out.
C39_Witness ==
    /\ sm.current_status = "timed_out"
    /\ Len(sm.datetimes_paused) = 1
    /\ sm.datetimes_paused[1][2] > Val(sm.datetime_started)
    /\ sm.datetime_finished # None

\* C40: with a clock that never goes back, the pairs of datetimes_paused
\* each have start <= end, follow one another in time without overlapping,
\* and lie between datetime_started and, once it is set, datetime_finished;
\* while the status is paused datetime_last_paused is set and is not earlier
\* than the end of the last pair.
C40_PausedIntervals ==
    LET ps == sm.datetimes_paused
    IN /\ \A i \in 1..Len(ps) :
              /\ ps[i][1] <= ps[i][2]
              /\ i > 1 => ps[i - 1][2] <= ps[i][1]
              /\ Val(sm.datetime_started) <= ps[i][1]
              /\ sm.datetime_finished # None => ps[i][2] <= Val(sm.datetime_finished)
       /\ sm.current_status = "paused" =>
              /\ sm.datetime_last_paused # None
              /\ ps # <<>> => ps[Len(ps)][2] <= Val(sm.datetime_last_paused)

\* C40: two pauses that each took time, with time between them.
C40_Witness ==
    /\ Len(sm.datetimes_paused) = 2
    /\ sm.datetimes_paused[1][1] < sm.datetimes_paused[1][2]
    /\ sm.datetimes_paused[1][2] < sm.datetimes_paused[2][1]
    /\ sm.datetimes_paused[2][1] < sm.datetimes_paused[2][2]

====
